---- MODULE Spec2Model ----
(***************************************************************************)
(* Host-side argument validation and dimension collapsing of the fused     *)
(* layer-norm extension (apex/normalization/csrc/layer_norm_cuda.cpp).     *)
(*                                                                         *)
(* The four exported entry points (forward, forward_affine, backward,      *)
(* backward_affine) are modelled statement by statement: the CHECK_INPUT   *)
(* macros, the three check_args overloads, the two loops of                *)
(* compute_n1_n2, the output allocation and the kernel dispatch.           *)
(***************************************************************************)
EXTENDS Integers, Sequences

VARIABLES
    entry,              \* the function the host called
    pc,                 \* position inside the call
    k,                  \* index of the tensor the next CHECK_INPUT looks at
    input, gamma, beta, dout, mean, invvar,   \* tensor arguments
    normalized_shape,   \* at::IntList argument
    n1, n2,             \* int n1,n2: <<>> while unassigned, <<v>> afterwards
    idiff, i,           \* locals of compute_n1_n2
    err,                \* the exception that ended the call, if any
    evaluated,          \* the checks evaluated so far, in order
    reads,              \* indices used to read input.sizes() in compute_n1_n2
    assert_failed,      \* the assert of compute_n1_n2 evaluated to false
    allocs,             \* buffers allocated by the call
    dispatches          \* kernel launches made by the call

vars == << entry, pc, k, input, gamma, beta, dout, mean, invvar,
           normalized_shape, n1, n2, idiff, i, err, evaluated, reads,
           assert_failed, allocs, dispatches >>

-----------------------------------------------------------------------------
(* Bounds of the model *)

\* largest tensor rank drawn for the shape resolver
MaxRank == 3
\* largest rank drawn for normalized_shape, gamma and beta in the affine check
MaxAffineRank == 2

\* dimension sizes drawn for the shape resolver: 46341^2 and 65536 * 46341
\* exceed 2^31, 65536^2 is 2^32
DimVals == {0, 2, 46341, 65536}
\* dimension sizes drawn for the affine check
AffineDims == {2, 3}
RECURSIVE ShapesUpTo(_, _)
ShapesUpTo(D, r) ==
    IF r = 0 THEN {<<>>}
    ELSE LET S == ShapesUpTo(D, r - 1)
         IN  S \cup {Append(s, d) : s \in {t \in S : Len(t) = r - 1}, d \in D}

\* shapes drawn for the entry points
EntryInputShapes == {<<2>>, <<3>>, <<2, 3>>}
EntryNormShapes == {<<>>, <<3>>, <<2, 3>>}
EntryAffineShapes == {<<3>>, <<2, 3>>}

-----------------------------------------------------------------------------
(* Machine integers.  int is 32 bits, int64_t 64 bits, two's complement.   *)
(* Values are split into base-256 digits so that a 64-bit product is       *)
(* computed digit by digit, every partial sum staying far below 2^31.      *)

\* the low n base-256 digits of the two's complement form of v
RECURSIVE Bytes(_, _)
Bytes(v, n) ==
    IF n = 0 THEN <<>> ELSE <<v % 256>> \o Bytes(v \div 256, n - 1)

\* the value of four digits read as a signed 32-bit int
Int32OfBytes(b) ==
    b[1] + 256 * b[2] + 65536 * b[3]
      + 16777216 * (IF b[4] >= 128 THEN b[4] - 256 ELSE b[4])

\* sum of a[j] * b[col + 1 - j] for j in 1..upto
RECURSIVE Conv(_, _, _, _)
Conv(a, b, col, upto) ==
    IF upto = 0 THEN 0
    ELSE (IF upto <= Len(a) /\ col + 1 - upto >= 1 /\ col + 1 - upto <= Len(b)
          THEN a[upto] * b[col + 1 - upto] ELSE 0)
         + Conv(a, b, col, upto - 1)

RECURSIVE MulBytesFrom(_, _, _, _, _)
MulBytesFrom(a, b, col, n, carry) ==
    IF col > n THEN <<>>
    ELSE LET s == Conv(a, b, col, col) + carry
         IN  <<s % 256>> \o MulBytesFrom(a, b, col + 1, n, s \div 256)

\* the low n digits of the product of two digit strings
MulBytes(a, b, n) == MulBytesFrom(a, b, 1, n, 0)

\* the conversion back to int saturating instead of wrapping
MulAssignInt_saturating(n, d) ==
    LET p == MulBytes(Bytes(n, 8), Bytes(d, 8), 8)
        fits == \/ (p[4] < 128 /\ \A j \in 5..8 : p[j] = 0)
                \/ (p[4] >= 128 /\ \A j \in 5..8 : p[j] = 255)
    IN  IF fits THEN Int32OfBytes(p)
        ELSE IF p[8] >= 128 THEN -2147483647 - 1 ELSE 2147483647

\* (int)((int64_t)n * d): the int is widened to 64 bits, multiplied by the
\* int64_t size and the product converted back to int
MulAssignInt(n, d) == Int32OfBytes(MulBytes(Bytes(n, 8), Bytes(d, 8), 8))

-----------------------------------------------------------------------------
(* Tensors *)

Tensor(def, cu, co, sz) ==
    [defined |-> def, cuda |-> cu, contiguous |-> co, sizes |-> sz]

\* an undefined at::Tensor: defined() is false and its type is not a CUDA
\* type, so CHECK_CUDA rejects it
UndefinedTensor == Tensor(FALSE, FALSE, FALSE, <<>>)

\* at::IntList::slice(n): the list without its first n entries
Slice(s, n) == SubSeq(s, n + 1, Len(s))

\* at::IntList::equals
Equals(a, b) == a = b

\* the values a read of t.sizes()[idx] can yield; an index outside the list
\* reads whatever lies beyond it
SizesAt(t, idx) ==
    IF idx >= 0 /\ idx < Len(t.sizes) THEN {t.sizes[idx + 1]}
    ELSE DimVals

NoError == [kind |-> "none", tensor |-> "none"]
Error(kd, t) == [kind |-> kd, tensor |-> t]

-----------------------------------------------------------------------------
(* The state before any call *)

Init ==
    /\ entry = "idle"
    /\ pc = "idle"
    /\ k = 0
    /\ input = UndefinedTensor
    /\ gamma = UndefinedTensor
    /\ beta = UndefinedTensor
    /\ dout = UndefinedTensor
    /\ mean = UndefinedTensor
    /\ invvar = UndefinedTensor
    /\ normalized_shape = <<>>
    /\ n1 = <<>>
    /\ n2 = <<>>
    /\ idiff = 0
    /\ i = 0
    /\ err = NoError
    /\ evaluated = <<>>
    /\ reads = {}
    /\ assert_failed = FALSE
    /\ allocs = 0
    /\ dispatches = 0

\* CHECK_INPUT(beta) missing from layer_norm_gradient_affine
TensorArgs_beta_unchecked(e) ==
    CASE e = "forward" -> <<"input">>
      [] e = "forward_affine" -> <<"input", "gamma", "beta">>
      [] e = "backward" -> <<"dout", "mean", "invvar", "input">>
      [] e = "backward_affine" -> <<"dout", "mean", "invvar", "input", "gamma">>
      [] OTHER -> <<>>

\* CHECK_INPUT(beta) placed before CHECK_INPUT(gamma)
TensorArgs_beta_first(e) ==
    CASE e = "forward" -> <<"input">>
      [] e = "forward_affine" -> <<"input", "beta", "gamma">>
      [] e = "backward" -> <<"dout", "mean", "invvar", "input">>
      [] e = "backward_affine" ->
             <<"dout", "mean", "invvar", "input", "beta", "gamma">>
      [] OTHER -> <<>>

\* the tensors an entry point passes to CHECK_INPUT, in the order of its
\* CHECK_INPUT lines
TensorArgs(e) ==
    CASE e = "forward" -> <<"input">>
      [] e = "forward_affine" -> <<"input", "gamma", "beta">>
      [] e = "backward" -> <<"dout", "mean", "invvar", "input">>
      [] e = "backward_affine" ->
             <<"dout", "mean", "invvar", "input", "gamma", "beta">>
      [] OTHER -> <<>>

Arg(name) ==
    CASE name = "input" -> input
      [] name = "gamma" -> gamma
      [] name = "beta" -> beta
      [] name = "dout" -> dout
      [] name = "mean" -> mean
      [] name = "invvar" -> invvar

\* the affine parameters validated only after the outputs are allocated
Body_allocate_first(e) ==
    CASE e = "forward" -> <<"check_args", "allocate", "dispatch">>
      [] e = "forward_affine" ->
             <<"check_args", "allocate", "check_args_gamma", "dispatch">>
      [] e = "backward" -> <<"check_args", "allocate", "dispatch">>
      [] e = "backward_affine" ->
             <<"check_args", "allocate", "check_args_gamma", "dispatch">>
      [] e = "check_args_4" -> <<"check_args">>
      [] e = "check_args_3" -> <<"check_args_gamma">>

\* the statements of a function after its CHECK_INPUT lines, in source order.
\* check_args(input, normalized_shape, gamma, beta, n1, n2) is the call of
\* check_args(input, normalized_shape, n1, n2) followed by the call of
\* check_args(normalized_shape, gamma, beta).
Body(e) ==
    CASE e = "forward" -> <<"check_args", "allocate", "dispatch">>
      [] e = "forward_affine" ->
             <<"check_args", "check_args_gamma", "allocate", "dispatch">>
      [] e = "backward" -> <<"check_args", "allocate", "dispatch">>
      [] e = "backward_affine" ->
             <<"check_args", "check_args_gamma", "allocate", "dispatch">>
      [] e = "check_args_4" -> <<"check_args">>
      [] e = "check_args_3" -> <<"check_args_gamma">>

\* where control goes when statement stmt of e completes without throwing
NextStmt(e, stmt) ==
    LET b == Body(e)
        at == CHOOSE j \in 1..Len(b) : b[j] = stmt
    IN  IF at < Len(b) THEN b[at + 1] ELSE "done"

Throw(kd, t) ==
    /\ err' = Error(kd, t)
    /\ pc' = "done"

-----------------------------------------------------------------------------
(* Entry points: the host's call binds the arguments; control then stands  *)
(* at the first CHECK_INPUT line.                                          *)

\* the tensors the host can pass: any placement and layout
DeviceTensors(shapes) ==
    {Tensor(TRUE, cu, co, sz) : cu \in BOOLEAN, co \in BOOLEAN, sz \in shapes}

\* gamma and beta can also arrive undefined (None on the host side)
OptionalTensors(shapes) == DeviceTensors(shapes) \cup {UndefinedTensor}

Enter(e) ==
    /\ pc = "idle"
    /\ entry' = e
    /\ pc' = "CHECK_CUDA"
    /\ k' = 1
    /\ UNCHANGED << n1, n2, idiff, i, err, evaluated, reads, assert_failed,
                    allocs, dispatches >>

layer_norm ==
    /\ Enter("forward")
    /\ input' \in DeviceTensors(EntryInputShapes)
    /\ normalized_shape' \in EntryNormShapes
    /\ UNCHANGED << gamma, beta, dout, mean, invvar >>

layer_norm_affine ==
    /\ Enter("forward_affine")
    /\ input' \in DeviceTensors(EntryInputShapes)
    /\ normalized_shape' \in EntryNormShapes
    /\ gamma' \in OptionalTensors(EntryAffineShapes)
    /\ beta' \in OptionalTensors(EntryAffineShapes)
    /\ UNCHANGED << dout, mean, invvar >>

layer_norm_gradient ==
    /\ Enter("backward")
    /\ dout' \in DeviceTensors({<<2, 3>>})
    /\ mean' \in DeviceTensors({<<2>>})
    /\ invvar' \in DeviceTensors({<<2>>})
    /\ input' \in DeviceTensors(EntryInputShapes)
    /\ normalized_shape' \in EntryNormShapes
    /\ UNCHANGED << gamma, beta >>

layer_norm_gradient_affine ==
    /\ Enter("backward_affine")
    /\ dout' \in DeviceTensors({<<2, 3>>})
    /\ mean' \in DeviceTensors({<<2>>})
    /\ invvar' \in DeviceTensors({<<2>>})
    /\ input' \in DeviceTensors(EntryInputShapes)
    /\ normalized_shape' \in EntryNormShapes
    /\ gamma' \in OptionalTensors(EntryAffineShapes)
    /\ beta' \in OptionalTensors(EntryAffineShapes)

-----------------------------------------------------------------------------
(* CHECK_INPUT(x) is CHECK_CUDA(x); CHECK_CONTIGUOUS(x) *)

CHECK_CUDA ==
    /\ pc = "CHECK_CUDA"
    /\ LET x == TensorArgs(entry)[k]
       IN  /\ evaluated' = Append(evaluated, <<"is_cuda", x>>)
           /\ IF Arg(x).cuda
              THEN pc' = "CHECK_CONTIGUOUS" /\ err' = err
              ELSE Throw("NotOnDevice", x)
    /\ UNCHANGED << entry, k, input, gamma, beta, dout, mean, invvar,
                    normalized_shape, n1, n2, idiff, i, reads, assert_failed,
                    allocs, dispatches >>

CHECK_CONTIGUOUS ==
    /\ pc = "CHECK_CONTIGUOUS"
    /\ LET x == TensorArgs(entry)[k]
       IN  /\ evaluated' = Append(evaluated, <<"is_contiguous", x>>)
           /\ IF Arg(x).contiguous
              THEN /\ err' = err
                   /\ IF k < Len(TensorArgs(entry))
                      THEN pc' = "CHECK_CUDA" /\ k' = k + 1
                      ELSE pc' = Body(entry)[1] /\ k' = k
              ELSE Throw("NotContiguous", x) /\ k' = k
    /\ UNCHANGED << entry, input, gamma, beta, dout, mean, invvar,
                    normalized_shape, n1, n2, idiff, i, reads, assert_failed,
                    allocs, dispatches >>

-----------------------------------------------------------------------------
(* check_args(input, normalized_shape, n1, n2) *)

\* the bound of the rank test off by one
NdimTooSmall_off_by_one(ns) == Len(ns) < 0

\* normalized_ndim < 1
NdimTooSmall(ns) == Len(ns) < 1

\* the rank comparison written with <=
InputShapeMismatch_strict_rank(t, ns) ==
    \/ Len(t.sizes) <= Len(ns)
    \/ ~Equals(Slice(t.sizes, Len(t.sizes) - Len(ns)), ns)

\* the rank comparison left out: a shorter input is compared over the
\* entries it has
InputShapeMismatch_no_rank_test(t, ns) ==
    /\ Len(t.sizes) >= Len(ns)
    /\ ~Equals(Slice(t.sizes, Len(t.sizes) - Len(ns)), ns)

\* input_ndim < normalized_ndim ||
\*   !input_shape.slice(input_ndim - normalized_ndim).equals(normalized_shape)
InputShapeMismatch(t, ns) ==
    LET input_shape == t.sizes
        input_ndim == Len(t.sizes)
        normalized_ndim == Len(ns)
    IN  \/ input_ndim < normalized_ndim
        \/ ~Equals(Slice(input_shape, input_ndim - normalized_ndim), ns)

check_args_ndim ==
    /\ pc = "check_args"
    /\ evaluated' = Append(evaluated, <<"normalized_ndim", "normalized_shape">>)
    /\ IF NdimTooSmall(normalized_shape)
       THEN Throw("EmptyNormalizedShape", "normalized_shape")
       ELSE pc' = "check_args_shape" /\ err' = err
    /\ UNCHANGED << entry, k, input, gamma, beta, dout, mean, invvar,
                    normalized_shape, n1, n2, idiff, i, reads, assert_failed,
                    allocs, dispatches >>

check_args_shape ==
    /\ pc = "check_args_shape"
    /\ evaluated' = Append(evaluated, <<"input_shape", "input">>)
    /\ IF InputShapeMismatch(input, normalized_shape)
       THEN Throw("ShapeMismatch", "input")
       ELSE pc' = "compute_n1_n2" /\ err' = err
    /\ UNCHANGED << entry, k, input, gamma, beta, dout, mean, invvar,
                    normalized_shape, n1, n2, idiff, i, reads, assert_failed,
                    allocs, dispatches >>

-----------------------------------------------------------------------------
(* compute_n1_n2 *)

\* int idiff = input.ndimension() - normalized_shape.size(); n2 = 1;
compute_n1_n2_begin ==
    /\ pc = "compute_n1_n2"
    /\ idiff' = Len(input.sizes) - Len(normalized_shape)
    /\ n2' = <<1>>
    /\ i' = 0
    /\ pc' = "n2_loop"
    /\ UNCHANGED << entry, k, input, gamma, beta, dout, mean, invvar,
                    normalized_shape, n1, err, evaluated, reads,
                    assert_failed, allocs, dispatches >>

\* one evaluation of the first loop's condition, and its body when it holds.
\* A build with assertions stops at a failed assert; a build with NDEBUG
\* goes on.
compute_n1_n2_n2_loop ==
    /\ pc = "n2_loop"
    /\ IF i < Len(normalized_shape)
       THEN \E v \in SizesAt(input, i + idiff) :
              LET holds == (v = normalized_shape[i + 1])
              IN  /\ reads' = reads \cup {i + idiff}
                  /\ assert_failed' = (assert_failed \/ ~holds)
                  /\ pc' \in (IF holds THEN {"n2_loop"}
                              ELSE {"n2_loop", "aborted"})
                  /\ n2' = <<MulAssignInt(n2[1], normalized_shape[i + 1])>>
                  /\ i' = i + 1
                  /\ n1' = n1
       ELSE /\ n1' = <<1>>
            /\ i' = 0
            /\ pc' = "n1_loop"
            /\ UNCHANGED << n2, reads, assert_failed >>
    /\ UNCHANGED << entry, k, input, gamma, beta, dout, mean, invvar,
                    normalized_shape, idiff, err, evaluated, allocs,
                    dispatches >>

\* one evaluation of the second loop's condition, and its body when it
\* holds; the function returns when it does not
compute_n1_n2_n1_loop ==
    /\ pc = "n1_loop"
    /\ IF i < idiff
       THEN \E v \in SizesAt(input, i) :
              /\ reads' = reads \cup {i}
              /\ n1' = <<MulAssignInt(n1[1], v)>>
              /\ i' = i + 1
              /\ pc' = pc
       ELSE /\ pc' = NextStmt(entry, "check_args")
            /\ UNCHANGED << n1, i, reads >>
    /\ UNCHANGED << entry, k, input, gamma, beta, dout, mean, invvar,
                    normalized_shape, n2, idiff, err, evaluated,
                    assert_failed, allocs, dispatches >>

-----------------------------------------------------------------------------
(* check_args(normalized_shape, gamma, beta) *)

\* the test of gamma.defined() left out
GammaMismatch_no_defined_test(ns, g) == ~Equals(g.sizes, ns)

\* gamma.defined() && !gamma.sizes().equals(normalized_shape)
GammaMismatch(ns, g) == g.defined /\ ~Equals(g.sizes, ns)

\* beta.defined() && !beta.sizes().equals(normalized_shape)
BetaMismatch(ns, b) == b.defined /\ ~Equals(b.sizes, ns)

check_args_gamma ==
    /\ pc = "check_args_gamma"
    /\ evaluated' = Append(evaluated, <<"sizes", "gamma">>)
    /\ IF GammaMismatch(normalized_shape, gamma)
       THEN Throw("ShapeMismatch", "gamma")
       ELSE pc' = "check_args_beta" /\ err' = err
    /\ UNCHANGED << entry, k, input, gamma, beta, dout, mean, invvar,
                    normalized_shape, n1, n2, idiff, i, reads, assert_failed,
                    allocs, dispatches >>

check_args_beta ==
    /\ pc = "check_args_beta"
    /\ evaluated' = Append(evaluated, <<"sizes", "beta">>)
    /\ IF BetaMismatch(normalized_shape, beta)
       THEN Throw("ShapeMismatch", "beta")
       ELSE /\ pc' = NextStmt(entry, "check_args_gamma")
            /\ err' = err
    /\ UNCHANGED << entry, k, input, gamma, beta, dout, mean, invvar,
                    normalized_shape, n1, n2, idiff, i, reads, assert_failed,
                    allocs, dispatches >>

-----------------------------------------------------------------------------
(* Allocation and kernel dispatch *)

\* the buffers an entry point creates: output, mean and invvar in the forward
\* pass, grad_input (and grad_gamma, grad_beta) in the backward pass
Buffers(e) ==
    CASE e = "forward" -> 3
      [] e = "forward_affine" -> 3
      [] e = "backward" -> 1
      [] e = "backward_affine" -> 3

allocate ==
    /\ pc = "allocate"
    /\ allocs' = allocs + Buffers(entry)
    /\ pc' = NextStmt(entry, "allocate")
    /\ UNCHANGED << entry, k, input, gamma, beta, dout, mean, invvar,
                    normalized_shape, n1, n2, idiff, i, err, evaluated,
                    reads, assert_failed, dispatches >>

\* cuda_layer_norm / cuda_layer_norm_gradient, then the return
dispatch ==
    /\ pc = "dispatch"
    /\ dispatches' = dispatches + 1
    /\ pc' = NextStmt(entry, "dispatch")
    /\ UNCHANGED << entry, k, input, gamma, beta, dout, mean, invvar,
                    normalized_shape, n1, n2, idiff, i, err, evaluated,
                    reads, assert_failed, allocs >>

-----------------------------------------------------------------------------
(* Specifications *)

Next ==
    \/ layer_norm
    \/ layer_norm_affine
    \/ layer_norm_gradient
    \/ layer_norm_gradient_affine
    \/ CHECK_CUDA
    \/ CHECK_CONTIGUOUS
    \/ check_args_ndim
    \/ check_args_shape
    \/ compute_n1_n2_begin
    \/ compute_n1_n2_n2_loop
    \/ compute_n1_n2_n1_loop
    \/ check_args_gamma
    \/ check_args_beta
    \/ allocate
    \/ dispatch

\* the four entry points as the host calls them
Spec == Init /\ [][Next]_vars

\* check_args(input, normalized_shape, n1, n2) applied to every drawn pair of
\* shapes
InitResolve ==
    /\ entry = "check_args_4"
    /\ pc = "check_args"
    /\ k = 0
    /\ input \in {Tensor(TRUE, TRUE, TRUE, sz) : sz \in ShapesUpTo(DimVals, MaxRank)}
    /\ normalized_shape \in ShapesUpTo(DimVals, MaxRank)
    /\ gamma = UndefinedTensor
    /\ beta = UndefinedTensor
    /\ dout = UndefinedTensor
    /\ mean = UndefinedTensor
    /\ invvar = UndefinedTensor
    /\ n1 = <<>>
    /\ n2 = <<>>
    /\ idiff = 0
    /\ i = 0
    /\ err = NoError
    /\ evaluated = <<>>
    /\ reads = {}
    /\ assert_failed = FALSE
    /\ allocs = 0
    /\ dispatches = 0

NextResolve ==
    \/ check_args_ndim
    \/ check_args_shape
    \/ compute_n1_n2_begin
    \/ compute_n1_n2_n2_loop
    \/ compute_n1_n2_n1_loop

SpecResolve == InitResolve /\ [][NextResolve]_vars

\* check_args(normalized_shape, gamma, beta) applied to every drawn triple
InitAffine ==
    /\ entry = "check_args_3"
    /\ pc = "check_args_gamma"
    /\ k = 0
    /\ input = UndefinedTensor
    /\ normalized_shape \in ShapesUpTo(AffineDims, MaxAffineRank)
    /\ gamma \in {Tensor(TRUE, TRUE, TRUE, sz) : sz \in ShapesUpTo(AffineDims, MaxAffineRank)}
                   \cup {UndefinedTensor}
    /\ beta \in {Tensor(TRUE, TRUE, TRUE, sz) : sz \in ShapesUpTo(AffineDims, MaxAffineRank)}
                   \cup {UndefinedTensor}
    /\ dout = UndefinedTensor
    /\ mean = UndefinedTensor
    /\ invvar = UndefinedTensor
    /\ n1 = <<>>
    /\ n2 = <<>>
    /\ idiff = 0
    /\ i = 0
    /\ err = NoError
    /\ evaluated = <<>>
    /\ reads = {}
    /\ assert_failed = FALSE
    /\ allocs = 0
    /\ dispatches = 0

NextAffine ==
    \/ check_args_gamma
    \/ check_args_beta

SpecAffine == InitAffine /\ [][NextAffine]_vars

-----------------------------------------------------------------------------
(* Exact arithmetic for the statements about products: a natural number is *)
(* the string of its base-256 digits, least significant first.             *)

RECURSIVE Strip(_)
Strip(b) ==
    IF b = <<>> THEN <<>>
    ELSE IF b[Len(b)] = 0 THEN Strip(SubSeq(b, 1, Len(b) - 1))
    ELSE b

RECURSIVE Inc(_)
Inc(b) ==
    IF b = <<>> THEN <<1>>
    ELSE IF b[1] < 255 THEN <<b[1] + 1>> \o Tail(b)
    ELSE <<0>> \o Inc(Tail(b))

\* the digits of a size (sizes are below 2^31)
Digits(v) == Strip(Bytes(v, 4))

\* the digits of |v| for a 32-bit int v
Magnitude(v) == IF v >= 0 THEN Digits(v) ELSE Strip(Inc(Bytes(-(v + 1), 4)))

NatMul(a, b) == Strip(MulBytes(a, b, Len(a) + Len(b)))

\* the product of all entries of a shape, exactly
RECURSIVE Product(_)
Product(s) ==
    IF s = <<>> THEN <<1>>
    ELSE NatMul(Product(SubSeq(s, 1, Len(s) - 1)), Digits(s[Len(s)]))

\* p < 2^31
BelowTwoTo31(p) == Len(p) < 4 \/ (Len(p) = 4 /\ p[4] < 128)

\* p reduced modulo 2^32 into the range of a signed 32-bit int
Wrap32(p) ==
    Int32OfBytes([j \in 1..4 |-> IF j <= Len(p) THEN p[j] ELSE 0])

\* the int v is the natural number p
IsNat(v, p) == v >= 0 /\ Digits(v) = p

\* normalized_shape is non-empty and equals the trailing entries of in
ValidPair(in, ns) ==
    /\ Len(ns) >= 1
    /\ Len(in) >= Len(ns)
    /\ \A j \in 1..Len(ns) : in[Len(in) - Len(ns) + j] = ns[j]

\* the entries of in before the trailing Len(ns) ones
LeadingDims(in, ns) == SubSeq(in, 1, Len(in) - Len(ns))

\* check_args(input, normalized_shape, n1, n2) has finished
Resolved == entry = "check_args_4" /\ pc = "done"

\* C1: for every valid pair the resolver succeeds and returns n2 = the
\* product of normalized_shape and n1 = the product of the leading entries of
\* the input shape (1 when there are none).
C1_ExactProducts ==
    (Resolved /\ ValidPair(input.sizes, normalized_shape)) =>
        /\ err = NoError
        /\ Len(n1) = 1 /\ Len(n2) = 1
        /\ IsNat(n2[1], Product(normalized_shape))
        /\ IsNat(n1[1], Product(LeadingDims(input.sizes, normalized_shape)))

\* C2: for every valid pair the returned n1 and n2 satisfy
\* n1 * n2 = product of all entries of the input shape.
C2_ProductOfInput ==
    (Resolved /\ ValidPair(input.sizes, normalized_shape)) =>
        /\ err = NoError
        /\ Len(n1) = 1 /\ Len(n2) = 1
        /\ NatMul(Magnitude(n1[1]), Magnitude(n2[1])) = Product(input.sizes)
        /\ ((n1[1] < 0) = (n2[1] < 0) \/ n1[1] = 0 \/ n2[1] = 0)

\* C10: for a valid pair n1 and n2 are the exact products reduced modulo 2^32
\* into the signed 32-bit range; each equals its exact product precisely when
\* that product is below 2^31.
C10_WrappedProducts ==
    (Resolved /\ ValidPair(input.sizes, normalized_shape)) =>
        LET p2 == Product(normalized_shape)
            p1 == Product(LeadingDims(input.sizes, normalized_shape))
        IN  /\ err = NoError
            /\ n2 = <<Wrap32(p2)>>
            /\ n1 = <<Wrap32(p1)>>
            /\ IsNat(n2[1], p2) <=> BelowTwoTo31(p2)
            /\ IsNat(n1[1], p1) <=> BelowTwoTo31(p1)

\* a valid call whose normalized product 46341 * 46341 is above 2^31 and comes
\* back negative, beside an exact n1
C10_Witness ==
    /\ Resolved
    /\ input.sizes = <<2, 46341, 46341>>
    /\ normalized_shape = <<46341, 46341>>
    /\ n2 = <<-2147479015>>
    /\ n1 = <<2>>

\* C3: with an empty normalized_shape the resolver fails with
\* EmptyNormalizedShape whatever the input shape is, and n1 and n2 are never
\* assigned.
C3_EmptyNormalizedShape ==
    (entry = "check_args_4" /\ normalized_shape = <<>>) =>
        /\ n1 = <<>> /\ n2 = <<>>
        /\ pc \in {"check_args", "done"}
        /\ pc = "done" => err.kind = "EmptyNormalizedShape"

\* the empty normalized_shape rejected for an input that has no dimensions
\* either
C3_Witness ==
    /\ Resolved
    /\ normalized_shape = <<>>
    /\ input.sizes = <<>>
    /\ err.kind = "EmptyNormalizedShape"

\* C4: for a non-empty normalized_shape the resolver fails with ShapeMismatch
\* exactly when the input has fewer dimensions than normalized_shape or some
\* trailing entry of the input shape differs from normalized_shape.
C4_ShapeMismatchIff ==
    (Resolved /\ Len(normalized_shape) >= 1) =>
        LET in == input.sizes
            ns == normalized_shape
            shorter == Len(in) < Len(ns)
            differs == \E j \in 1..Len(ns) : in[Len(in) - Len(ns) + j] # ns[j]
        IN  /\ (err.kind = "ShapeMismatch") <=> (shorter \/ differs)
            /\ err.kind \in {"ShapeMismatch", "none"}

\* an input without dimensions rejected against a one-entry normalized_shape
C4_Witness ==
    /\ Resolved
    /\ input.sizes = <<>>
    /\ Len(normalized_shape) = 1
    /\ err.kind = "ShapeMismatch"

\* C9: once compute_n1_n2 is entered through check_args, idiff is not
\* negative, every index used to read input.sizes() is inside the list, and
\* the assert never evaluates to false.
C9_AssertNeverFails ==
    (pc \in {"n2_loop", "n1_loop", "aborted"} \/ n2 # <<>>) =>
        /\ idiff >= 0
        /\ idiff = Len(input.sizes) - Len(normalized_shape)
        /\ \A idx \in reads : idx >= 0 /\ idx < Len(input.sizes)
        /\ ~assert_failed
        /\ pc # "aborted"

\* a rank-3 input with a two-entry normalized_shape: both loops have run and
\* read all three sizes
C9_Witness ==
    /\ Resolved
    /\ err = NoError
    /\ idiff = 1
    /\ reads = {0, 1, 2}
    /\ n1 # <<>>

-----------------------------------------------------------------------------
(* Statements about check_args(normalized_shape, gamma, beta) *)

\* two shapes differ in rank or in some size
ShapesDiffer(a, b) ==
    \/ Len(a) # Len(b)
    \/ \E j \in 1..Len(a) : a[j] # b[j]

\* C5: the affine check fails exactly when gamma is defined with a shape
\* other than normalized_shape or beta is defined with a shape other than
\* normalized_shape; an absent gamma or beta is no error; a mismatching gamma
\* is the tensor the error names, whatever beta is.
C5_AffineParams ==
    (entry = "check_args_3" /\ pc = "done") =>
        LET badGamma == gamma.defined /\ ShapesDiffer(gamma.sizes, normalized_shape)
            badBeta == beta.defined /\ ShapesDiffer(beta.sizes, normalized_shape)
        IN  /\ (err # NoError) <=> (badGamma \/ badBeta)
            /\ badGamma => err = Error("ShapeMismatch", "gamma")
            /\ (~badGamma /\ badBeta) => err = Error("ShapeMismatch", "beta")

\* gamma and beta both of a wrong shape: the error names gamma
C5_Witness ==
    /\ entry = "check_args_3" /\ pc = "done"
    /\ normalized_shape = <<3>>
    /\ gamma.defined /\ gamma.sizes = <<2>>
    /\ beta.defined /\ beta.sizes = <<2, 3>>
    /\ err = Error("ShapeMismatch", "gamma")

-----------------------------------------------------------------------------
(* Statements about the four entry points *)

EntryPoints == {"forward", "forward_affine", "backward", "backward_affine"}

ValidationErrors ==
    {"NotOnDevice", "NotContiguous", "EmptyNormalizedShape", "ShapeMismatch"}

\* C6: every error of an entry point is raised before any allocation and
\* before any kernel dispatch, and a call that allocates goes on to exactly
\* one dispatch.
C6_ErrorsBeforeAllocation ==
    entry \in EntryPoints =>
        /\ err # NoError =>
             /\ err.kind \in ValidationErrors
             /\ allocs = 0
             /\ dispatches = 0
             /\ pc = "done"
        /\ allocs > 0 => pc \in {"dispatch", "done"}
        /\ dispatches > 0 => allocs > 0
        /\ (pc = "done" /\ allocs > 0) => dispatches = 1
        /\ pc # "done" => dispatches = 0

\* the last check of layer_norm_gradient_affine failing: nothing was
\* allocated, nothing dispatched
C6_Witness ==
    /\ entry = "backward_affine"
    /\ pc = "done"
    /\ err = Error("ShapeMismatch", "beta")
    /\ allocs = 0
    /\ dispatches = 0
    /\ Len(n1) = 1

\* the tensor arguments of an entry point: input; gamma and beta in the
\* affine variants; dout, mean and invvar in the backward variants
TensorsOf(e) ==
    {"input"}
      \cup (IF e \in {"forward_affine", "backward_affine"}
            THEN {"gamma", "beta"} ELSE {})
      \cup (IF e \in {"backward", "backward_affine"}
            THEN {"dout", "mean", "invvar"} ELSE {})

\* C7: the kernel is dispatched only if every tensor argument is on the GPU
\* and contiguous; when one is not, the call fails with an error naming a
\* tensor that has the defect reported.
C7_DispatchOnlyCheckedTensors ==
    entry \in EntryPoints =>
        LET bad == {x \in TensorsOf(entry) :
                       ~Arg(x).cuda \/ ~Arg(x).contiguous}
        IN  /\ dispatches > 0 => bad = {}
            /\ (pc = "done" /\ bad # {}) =>
                 /\ err.tensor \in bad
                 /\ \/ err.kind = "NotOnDevice" /\ ~Arg(err.tensor).cuda
                    \/ err.kind = "NotContiguous" /\ ~Arg(err.tensor).contiguous
            /\ (pc = "done" /\ bad = {}) =>
                 err.kind \notin {"NotOnDevice", "NotContiguous"}

\* layer_norm_gradient_affine with beta, its last tensor, alone not
\* contiguous
C7_Witness ==
    /\ entry = "backward_affine"
    /\ pc = "done"
    /\ \A x \in {"dout", "mean", "invvar", "input", "gamma"} :
          Arg(x).cuda /\ Arg(x).contiguous
    /\ beta.cuda /\ ~beta.contiguous
    /\ err = Error("NotContiguous", "beta")
    /\ dispatches = 0

\* the tensor parameters of an entry point in the order of its signature
ListedOrder(e) ==
    CASE e = "forward" -> <<"input">>
      [] e = "forward_affine" -> <<"input", "gamma", "beta">>
      [] e = "backward" -> <<"dout", "mean", "invvar", "input">>
      [] e = "backward_affine" ->
             <<"dout", "mean", "invvar", "input", "gamma", "beta">>

\* device then contiguity of each listed tensor
RECURSIVE PlacementChecks(_)
PlacementChecks(ts) ==
    IF ts = <<>> THEN <<>>
    ELSE << <<"is_cuda", Head(ts)>>, <<"is_contiguous", Head(ts)>> >>
           \o PlacementChecks(Tail(ts))

\* the fixed order of the checks: placement of every tensor, the empty
\* normalized_shape, the input shape, then gamma's and beta's shape
OrderedChecks(e) ==
    PlacementChecks(ListedOrder(e))
      \o << <<"normalized_ndim", "normalized_shape">>, <<"input_shape", "input">> >>
      \o (IF e \in {"forward_affine", "backward_affine"}
          THEN << <<"sizes", "gamma">>, <<"sizes", "beta">> >>
          ELSE <<>>)

\* the condition a check rejects, stated on the arguments of the call
Violates(c) ==
    CASE c[1] = "is_cuda" -> ~Arg(c[2]).cuda
      [] c[1] = "is_contiguous" -> ~Arg(c[2]).contiguous
      [] c[1] = "normalized_ndim" -> normalized_shape = <<>>
      [] c[1] = "input_shape" ->
             \/ Len(input.sizes) < Len(normalized_shape)
             \/ \E j \in 1..Len(normalized_shape) :
                   input.sizes[Len(input.sizes) - Len(normalized_shape) + j]
                     # normalized_shape[j]
      [] c[1] = "sizes" ->
             Arg(c[2]).defined /\ ShapesDiffer(Arg(c[2]).sizes, normalized_shape)

ErrorOf(c) ==
    CASE c[1] = "is_cuda" -> Error("NotOnDevice", c[2])
      [] c[1] = "is_contiguous" -> Error("NotContiguous", c[2])
      [] c[1] = "normalized_ndim" -> Error("EmptyNormalizedShape", c[2])
      [] c[1] = "input_shape" -> Error("ShapeMismatch", c[2])
      [] c[1] = "sizes" -> Error("ShapeMismatch", c[2])

\* C8: when several conditions are violated at once, the error reported is
\* that of the first failing check in the fixed order, and no check after the
\* first failing one is evaluated.
C8_FirstFailureWins ==
    entry \in EntryPoints =>
        LET cs == OrderedChecks(entry)
            failing == {j \in 1..Len(cs) : Violates(cs[j])}
            first == CHOOSE j \in failing : \A h \in failing : j <= h
        IN  /\ Len(evaluated) <= Len(cs)
            /\ evaluated = SubSeq(cs, 1, Len(evaluated))
            /\ \A j \in 1..Len(evaluated) : Violates(cs[j]) =>
                  (j = Len(evaluated) /\ err = ErrorOf(cs[j]))
            /\ pc = "done" =>
                  IF failing = {}
                  THEN err = NoError /\ evaluated = cs
                  ELSE err = ErrorOf(cs[first]) /\ evaluated = SubSeq(cs, 1, first)

\* layer_norm_affine with an input of the wrong shape, a gamma of the wrong
\* shape and a beta of the wrong shape: the input-shape error is reported and
\* gamma's shape is never looked at
C8_Witness ==
    /\ entry = "forward_affine"
    /\ pc = "done"
    /\ input.sizes = <<2>>
    /\ normalized_shape = <<3>>
    /\ gamma.sizes = <<2, 3>>
    /\ beta.sizes = <<2, 3>>
    /\ err = Error("ShapeMismatch", "input")
    /\ evaluated[Len(evaluated)] = <<"input_shape", "input">>

====
